---- MODULE Spec2Model ----
(***************************************************************************)
(* Model of the BrighterScript -> JSDoc comment converter                  *)
(* (convert-brighterscript-docs.js).                                       *)
(*                                                                         *)
(* Text is modelled as a sequence of tokens.  A token stands for a maximal *)
(* run of characters that the plugin's regular expressions treat alike:    *)
(* " " is one whitespace character, a word token is a maximal run of \w    *)
(* characters, every punctuation character is its own token, and a tag     *)
(* such as "@param" is one token.  A line is a sequence of tokens, a text  *)
(* (a string that is later joined or split on '\n') is a sequence of lines.*)
(***************************************************************************)
EXTENDS Integers, Sequences, FiniteSets, TLC

VARIABLES
  namespacesCreated,  \* the module-level array of namespace paths already declared
  e,                  \* the event handed to beforeParse: file name and parsed source
  input,              \* the arguments of the function under study
  output,             \* the lines of the produced text (e.source after beforeParse)
  pc,                 \* the operation about to run, or "done"
  handled             \* number of beforeParse invocations so far

vars == <<namespacesCreated, e, input, output, pc, handled>>

----------------------------------------------------------------------------
(* Bounds of the explored inputs *)

MaxLines == 3

MaxParams == 2

MaxStmts == 2

MaxFiles == 2

MaxComments == 3

LastLine == 5

----------------------------------------------------------------------------
(* Tokens *)

Words == {"x", "X", "y", "z", "integer", "Integer", "string", "dynamic",
          "float", "first", "max", "text", "Foo", "Bar", "Mod", "NS", "Sub",
          "Outer", "REM", "1", "a", "b", "_c", "f", "g", "_g", "h", "k", "m", "_p",
          "q", "New", "K", "math", "utils", "bs", "brs"}

IsWs(t) == t = " "

IsWord(t) == t \in Words

\* String.prototype.toLowerCase, token by token
ToLower(t) ==
  CASE t = "X" -> "x"
    [] t = "Integer" -> "integer"
    [] t = "Foo" -> "foo"
    [] t = "Bar" -> "bar"
    [] t = "Mod" -> "mod"
    [] t = "REM" -> "rem"
    [] t = "New" -> "new"
    [] OTHER -> t

LowerSeq(s) == [i \in 1..Len(s) |-> ToLower(s[i])]

\* number of consecutive whitespace tokens of s starting at index i
RECURSIVE WsRun(_, _)
WsRun(s, i) == IF i <= Len(s) /\ IsWs(s[i]) THEN 1 + WsRun(s, i + 1) ELSE 0

\* s from index i to its end
From(s, i) == IF i > Len(s) THEN <<>> ELSE SubSeq(s, i, Len(s))

TrimLeft(s) == From(s, 1 + WsRun(s, 1))

RECURSIVE TrimRight(_)
TrimRight(s) ==
  IF Len(s) > 0 /\ IsWs(s[Len(s)]) THEN TrimRight(SubSeq(s, 1, Len(s) - 1)) ELSE s

\* String.prototype.trim
Trim(s) == TrimRight(TrimLeft(s))

Contains(s, t) == \E i \in 1..Len(s) : s[i] = t

\* concatenation of a sequence of sequences (Array.join('\n') of texts, spread pushes)
RECURSIVE Flatten(_)
Flatten(ss) == IF ss = <<>> THEN <<>> ELSE Head(ss) \o Flatten(Tail(ss))

\* a filter whose callback always answers true
FilterIdxKeepAll(s, keep, i) == From(s, i)

\* Array.prototype.filter on a sequence, keep[i] telling whether element i stays
RECURSIVE FilterIdx(_, _, _)
FilterIdx(s, keep, i) ==
  IF i > Len(s) THEN <<>>
  ELSE (IF keep[i] THEN <<s[i]>> ELSE <<>>) \o FilterIdx(s, keep, i + 1)

\* Array.prototype.splice(i, 1)
Splice(s, i) == SubSeq(s, 1, i - 1) \o From(s, i + 1)

----------------------------------------------------------------------------
(* The tag-recognition regular expressions *)

NoMatch == [matched |-> FALSE, g1 |-> <<>>, name |-> <<>>, rest |-> <<>>]

Matched(g1, name, rest) == [matched |-> TRUE, g1 |-> g1, name |-> name, rest |-> rest]

\* the first index of token t in s at or after index i, 0 if there is none
RECURSIVE FirstIndex(_, _, _)
FirstIndex(s, t, i) ==
  IF i > Len(s) THEN 0 ELSE IF s[i] = t THEN i ELSE FirstIndex(s, t, i + 1)

\* the last index of token t in s at or after index i, 0 if there is none
RECURSIVE LastIndex(_, _, _, _)
LastIndex(s, t, i, found) ==
  IF i > Len(s) THEN found
  ELSE LastIndex(s, t, i + 1, IF s[i] = t THEN i ELSE found)

\* [\s-\s|\s]* : a run of whitespace, '-' and '|' characters
RECURSIVE SepRun(_, _)
SepRun(s, i) ==
  IF i <= Len(s) /\ (IsWs(s[i]) \/ s[i] = "-" \/ s[i] = "|")
  THEN 1 + SepRun(s, i + 1) ELSE 0

\* [\s-\s|\s]*(.*) from index i: the description
AfterSep(s, i) == From(s, i + SepRun(s, i))

\* \[(\w+).*\] with '[' at index q: the greedy .* ends at the last ']' (r)
BracketNameAt(s, q, g1, r) ==
  IF q + 1 <= Len(s) /\ IsWord(s[q + 1]) /\ r > 0
  THEN Matched(g1, <<s[q + 1]>>, AfterSep(s, r + 1))
  ELSE NoMatch

\* (?:\[(\w+).*\]|(\w+))[\s-\s|\s]*(.*) tried at index q, with type group g1
ParamNameAt(s, q, g1) ==
  IF q > Len(s) THEN NoMatch
  ELSE IF s[q] = "[" THEN BracketNameAt(s, q, g1, LastIndex(s, "]", q + 2, 0))
  ELSE IF IsWord(s[q]) THEN Matched(g1, <<s[q]>>, AfterSep(s, q + 1))
  ELSE NoMatch

\* {([^}]*)}\s+ with '{' at index p and the first '}' after it at index c
ParamAfterType(s, p, c) ==
  IF c = 0 \/ WsRun(s, c + 1) = 0 THEN NoMatch
  ELSE ParamNameAt(s, c + 1 + WsRun(s, c + 1), SubSeq(s, p + 1, c - 1))

\* what follows the a whitespace characters after "@param", from index p;
\* without a type both \s+ need a character of the whitespace run
ParamTypeAt(s, p, a) ==
  IF a = 0 \/ p > Len(s) THEN NoMatch
  ELSE IF s[p] = "{" THEN ParamAfterType(s, p, FirstIndex(s, "}", p + 1))
  ELSE IF a >= 2 THEN ParamNameAt(s, p, <<>>)
  ELSE NoMatch

\* paramRegex tried with "@param" at index i
ParamMatchAt(s, i) == ParamTypeAt(s, i + 1 + WsRun(s, i + 1), WsRun(s, i + 1))

RECURSIVE ParamScan(_, _)

ParamScanStep(s, i, m) == IF m.matched THEN m ELSE ParamScan(s, i + 1)

\* the leftmost match of paramRegex at or after index i
ParamScan(s, i) ==
  IF i > Len(s) THEN NoMatch
  ELSE IF s[i] = "@param" THEN ParamScanStep(s, i, ParamMatchAt(s, i))
  ELSE ParamScan(s, i + 1)

\* line.match(paramRegex)
paramRegex(s) == ParamScan(s, 1)

\* ({(?:[^}]*)})?\s*(.*) from index p, c the first '}' after p: g1 keeps its
\* braces, rest is the description
ReturnTypeAt(s, p, c) ==
  IF p <= Len(s) /\ s[p] = "{" /\ c > 0
  THEN Matched(SubSeq(s, p, c), <<>>, From(s, c + 1 + WsRun(s, c + 1)))
  ELSE Matched(<<>>, <<>>, From(s, p))

\* returnRegex with "@return" or "@returns" at index i - 1
ReturnMatchAt(s, p) == ReturnTypeAt(s, p, FirstIndex(s, "}", p + 1))

\* the leftmost match of returnRegex at or after index i
RECURSIVE ReturnScan(_, _)
ReturnScan(s, i) ==
  IF i > Len(s) THEN NoMatch
  ELSE IF s[i] = "@return" \/ s[i] = "@returns"
       THEN ReturnMatchAt(s, i + 1 + WsRun(s, i + 1))
  ELSE ReturnScan(s, i + 1)

\* line.match(returnRegex)
returnRegex(s) == ReturnScan(s, 1)

\* line.match(extendsRegex): the expression has no capture group, so the
\* match array's element 1 is undefined (modelled as the empty string)
extendsRegex(s) ==
  IF Contains(s, "@extends") THEN Matched(<<>>, <<>>, <<>>) ELSE NoMatch

----------------------------------------------------------------------------
(* Types, descriptions, membership *)

NoType == [kind |-> "none", name |-> ""]

Builtin(n) == [kind |-> "builtin", name |-> n]

Custom(n) == [kind |-> "custom", name |-> n]

\* getTypeName: "dynamic" when there is no type or no way to name it
getTypeName(type) ==
  IF type.kind = "none" THEN "dynamic"
  ELSE IF type.kind = "custom" THEN type.name
  ELSE IF type.kind = "builtin" THEN type.name
  ELSE "dynamic"

paramOrReturnDescriptionHelper(d) ==
  LET desc == Trim(d)
  IN IF desc # <<>> /\ Head(desc) = "-" THEN desc
     ELSE LET desc2 == IF desc # <<>> /\ Head(desc) = "," THEN Tail(desc) ELSE desc
          IN IF desc2 # <<>> THEN <<"-", " ">> \o desc2 ELSE <<>>

\* the line " * @memberof module:<name>", or the empty string
getMemberOf(moduleName, namespaceName) ==
  LET memberOf == IF namespaceName # <<>> THEN namespaceName ELSE moduleName
  IN IF memberOf # <<>>
     THEN <<" ", "*", " ", "@memberof", " ", "module", ":">> \o memberOf
     ELSE <<>>

----------------------------------------------------------------------------
(* Comments *)

\* the value of comments.find(...) when nothing is found
NoComment == [kind |-> "comment", present |-> FALSE, text |-> <<>>, endLine |-> 0]

\* the line ' */' that closes a block
CloseLine == <<" ", "*", "/">>

RECURSIVE StarRun(_, _)
StarRun(s, i) == IF i <= Len(s) /\ s[i] = "*" THEN 1 + StarRun(s, i + 1) ELSE 0

\* the rest of s after a run of whitespace from index i
AfterWs(s, i) == From(s, i + WsRun(s, i))

\* the rest of s after [\s]*\**[\s]* from index i
AfterStars(s, i) == AfterWs(s, i + WsRun(s, i) + StarRun(s, i + WsRun(s, i)))

\* the index of the first character of s that is no whitespace
Start(s) == 1 + WsRun(s, 1)

\* line.replace(bsMeaningfulCommentRegex, '$1')
bsMeaningfulCommentRegex(s) ==
  IF Start(s) <= Len(s) /\ (s[Start(s)] = "'" \/ s[Start(s)] = "REM")
  THEN AfterStars(s, Start(s) + 1)
  ELSE s

\* line.replace(jsCommentStartRegex, '$1')
jsCommentStartRegex(s) ==
  IF Start(s) + 1 <= Len(s) /\ s[Start(s)] = "/" /\ s[Start(s) + 1] = "*"
  THEN AfterWs(s, Start(s) + 1 + StarRun(s, Start(s) + 1))
  ELSE AfterWs(s, Start(s))

RECURSIVE RemoveSlashes(_)

\* s starts with k '*' characters
RemoveSlashesAfter(s, k) ==
  IF k + 1 <= Len(s) /\ s[k + 1] = "/"
  THEN RemoveSlashes(AfterWs(s, k + 2))
  ELSE IF k > 0 THEN SubSeq(s, 1, k) \o RemoveSlashes(From(s, k + 1))
  ELSE <<s[1]>> \o RemoveSlashes(Tail(s))

\* line.replace(/\**\/\s*/g, "")
RemoveSlashes(s) == IF s = <<>> THEN <<>> ELSE RemoveSlashesAfter(s, StarRun(s, 1))

\* one body line: marker stripped and trimmed, the opener stripped from the
\* first line, slashes removed, " * " put in front
JsDocLine(line, i) ==
  <<" ", "*", " ">>
  \o RemoveSlashes(IF i = 1
                   THEN jsCommentStartRegex(Trim(bsMeaningfulCommentRegex(line)))
                   ELSE Trim(bsMeaningfulCommentRegex(line)))

\* ['/**', ...body lines], without the closing line
convertCommentTextToJsDocLines(comment) ==
  IF comment.present /\ comment.text # <<>>
  THEN <<<<"/", "*", "*">>>>
       \o [i \in 1..Len(comment.text) |-> JsDocLine(comment.text[i], i)]
  ELSE <<<<"/", "*", "*">>>>

----------------------------------------------------------------------------
(* processFunction *)

\* paramNameList.join(", ")
RECURSIVE JoinNames(_)
JoinNames(names) ==
  IF names = <<>> THEN <<>>
  ELSE IF Len(names) = 1 THEN <<names[1]>>
  ELSE <<names[1], ",", " ">> \o JoinNames(Tail(names))

\* one call of the filter callback for parameter paramName, commentMatch
\* being line.match(paramRegex): acc.keep collects the callback's results,
\* acc.paramType and acc.paramDescription are the closure variables it assigns
ParamFilterStep(paramName, acc, commentMatch) ==
  IF /\ commentMatch.matched
     /\ LowerSeq(Trim(<<paramName>>)) = LowerSeq(Trim(commentMatch.name))
  THEN [keep |-> Append(acc.keep, FALSE),
        paramType |-> IF commentMatch.g1 # <<>>
                      THEN Trim(commentMatch.g1) ELSE acc.paramType,
        paramDescription |-> IF commentMatch.g1 # <<>> /\ commentMatch.rest # <<>>
                             THEN commentMatch.rest ELSE acc.paramDescription]
  ELSE [acc EXCEPT !.keep = Append(acc.keep, TRUE)]

\* commentLines.filter(...) for one parameter, from line i on
RECURSIVE ParamFilter(_, _, _, _)
ParamFilter(lines, i, paramName, acc) ==
  IF i > Len(lines) THEN acc
  ELSE ParamFilter(lines, i + 1, paramName,
                   ParamFilterStep(paramName, acc, paramRegex(lines[i])))

\* the rendered tag line of one parameter
ParamLine(param, paramType, paramDescription) ==
  <<" ", "*", " ", "@param", " ", "{">> \o paramType \o <<"}", " ">>
  \o (IF param.defaultValue # <<>>
      THEN <<"[", param.name, "=">> \o param.defaultValue \o <<"]">>
      ELSE <<param.name>>)
  \o (IF paramDescription # <<>>
      THEN <<" ">> \o paramOrReturnDescriptionHelper(paramDescription)
      ELSE <<>>)

\* one pass of the loop over the parameters, f being the outcome of the filter
ParamStep(st, param, f) ==
  [commentLines |-> FilterIdx(st.commentLines, f.keep, 1),
   output |-> Append(st.output, ParamLine(param, f.paramType, f.paramDescription)),
   paramNameList |-> Append(st.paramNameList, param.name)]

\* the loop over func.func.parameters
RECURSIVE ParamLoop(_, _, _)
ParamLoop(params, i, st) ==
  IF i > Len(params) THEN st
  ELSE ParamLoop(params, i + 1,
         ParamStep(st, params[i],
           ParamFilter(st.commentLines, 1, params[i].name,
                       [keep |-> <<>>,
                        paramType |-> <<getTypeName(params[i].type)>>,
                        paramDescription |-> <<>>])))

\* name.text[0] === '_' for the names the model uses
StartsWithUnderscore(name) == name \in {"_g", "_p", "_c"}

\* the three groups pushed with the classes first
StatementOrderClassesFirst(functionTexts, classTexts, namespaceTexts) ==
  classTexts \o functionTexts \o namespaceTexts

\* the private test without the naming convention
IsPrivateByModifierOnly(func) == func.accessModifier = "Private"

\* func.name.text[0] === '_' || func.accessModifier?.kind === "Private"
IsPrivate(func) ==
  StartsWithUnderscore(func.name) \/ func.accessModifier = "Private"

\* the type the return line of the comment ends up with: the comment's own
\* (trimmed) capture if it equals the structural name whatever the case,
\* else the structural name
CommentReturnType(structural, g1) ==
  IF g1 # <<>> /\ LowerSeq(Trim(g1)) = LowerSeq(structural) THEN Trim(g1) ELSE structural

\* the return line built from a matching comment line
ReturnLine(func, commentMatch) ==
  <<" ", "*", " ", "@return", " ", "{">>
  \o CommentReturnType(<<getTypeName(func.returnType)>>, commentMatch.g1)
  \o <<"}">>
  \o (IF commentMatch.rest # <<>>
      THEN <<" ">> \o paramOrReturnDescriptionHelper(commentMatch.rest)
      ELSE <<>>)

RECURSIVE ReturnLoop(_, _, _, _)

\* one pass of the return loop: a matching line is spliced out, and the
\* index advances in both cases
ReturnStep(func, lines, i, returnLine, commentMatch) ==
  IF commentMatch.matched
  THEN ReturnLoop(func, Splice(lines, i), i + 1, ReturnLine(func, commentMatch))
  ELSE ReturnLoop(func, lines, i + 1, returnLine)

\* the loop that looks for the return line in the comment lines
ReturnLoop(func, lines, i, returnLine) ==
  IF i > Len(lines) THEN [commentLines |-> lines, returnLine |-> returnLine]
  ELSE ReturnStep(func, lines, i, returnLine, returnRegex(lines[i]))

\* `(${paramNameList.join(", ")}) { }; `
DeclarationArgs(paramNameList) ==
  <<"(">> \o JoinNames(paramNameList) \o <<")", " ", "{", " ", "}", ";", " ">>

\* the declaration that follows the block; it ends in '\n', so that joining
\* leaves an empty line after it
funcDeclaration(func, paramNameList) ==
  IF func.isMethod
  THEN IF ToLower(func.name) = "new"
       THEN <<<<"constructor">> \o DeclarationArgs(paramNameList), <<>>>>
       ELSE <<<<func.name, " ">> \o DeclarationArgs(paramNameList), <<>>>>
  ELSE <<<<"function", " ", func.name, " ">> \o DeclarationArgs(paramNameList), <<>>>>

\* a block that holds the parameter lines first and the comment lines after
FunctionTextTagsFirst(func, moduleName, namespaceName, p, r) ==
  p.output \o r.commentLines
  \o <<r.returnLine, getMemberOf(moduleName, namespaceName), CloseLine>>
  \o funcDeclaration(func, p.paramNameList)

\* totalOutput: the passthrough lines, the parameter and access lines, the
\* return line, the membership line, the markers, the declaration
FunctionText(func, moduleName, namespaceName, p, r) ==
  r.commentLines \o p.output
  \o (IF IsPrivate(func) THEN <<<<" ", "*", " ", "@access", " ", "private">>>> ELSE <<>>)
  \o <<r.returnLine, getMemberOf(moduleName, namespaceName)>>
  \o (IF func.overrides THEN <<<<" ", "*", " ", "@override">>>> ELSE <<>>)
  \o (IF func.isMethod /\ ToLower(func.name) = "new"
      THEN <<<<" ", "*", " ", "@constructor">>>> ELSE <<>>)
  \o <<CloseLine>>
  \o funcDeclaration(func, p.paramNameList)
  \o (IF namespaceName # <<>>
      THEN <<namespaceName \o <<".", func.name, " ", "=", " ", func.name, ";", " ">>>>
      ELSE <<>>)

\* processFunction once the parameters are done (p)
FunctionAfterParams(func, moduleName, namespaceName, p) ==
  FunctionText(func, moduleName, namespaceName, p,
    ReturnLoop(func, p.commentLines, 1,
      <<" ", "*", " ", "@return", " ", "{", getTypeName(func.returnType), "}">>))

\* processFunction(comment, func, moduleName, namespaceName): the lines of
\* the returned string
processFunction(comment, func, moduleName, namespaceName) ==
  FunctionAfterParams(func, moduleName, namespaceName,
    ParamLoop(func.parameters, 1,
      [commentLines |-> convertCommentTextToJsDocLines(comment),
       output |-> <<>>, paramNameList |-> <<>>]))

----------------------------------------------------------------------------
(* Statements, comment lookup, classes, namespaces *)

IsComment(stmt) == stmt.kind = "comment"

IsFunction(stmt) == stmt.kind = "function"

IsClass(stmt) == stmt.kind = "class"

IsNamespace(stmt) == stmt.kind = "namespace"

IsField(stmt) == stmt.kind = "field"

IsMethod(stmt) == stmt.kind = "function" /\ stmt.isMethod

\* statements of the four kinds, each list in the statements' order;
\* a class method is a FunctionStatement too
groupStatements(statements) ==
  [comments |-> SelectSeq(statements, IsComment),
   functions |-> SelectSeq(statements, IsFunction),
   classes |-> SelectSeq(statements, IsClass),
   namespaces |-> SelectSeq(statements, IsNamespace)]

\* the line a comment has to end above: the first annotation's, if any
TargetStartLine(stmt) ==
  IF Len(stmt.annotations) > 0 THEN stmt.annotations[1] ELSE stmt.startLine

\* comments.find(...): the first comment, from index i on, that ends on the
\* line above the statement (above its first annotation) or on its line
RECURSIVE FindComment(_, _, _)
FindComment(comments, stmt, i) ==
  IF i > Len(comments) THEN NoComment
  ELSE IF \/ comments[i].endLine + 1 = TargetStartLine(stmt)
          \/ comments[i].endLine = stmt.startLine
       THEN comments[i]
  ELSE FindComment(comments, stmt, i + 1)

\* comments.find(...) run from the end: the last comment, up to index i,
\* that satisfies the test
RECURSIVE FindLastComment(_, _, _)
FindLastComment(comments, stmt, i) ==
  IF i < 1 THEN NoComment
  ELSE IF \/ comments[i].endLine + 1 = TargetStartLine(stmt)
          \/ comments[i].endLine = stmt.startLine
       THEN comments[i]
  ELSE FindLastComment(comments, stmt, i - 1)

getLastCommentForStatement(comments, stmt) == FindLastComment(comments, stmt, Len(comments))

getCommentForStatement(comments, stmt) == FindComment(comments, stmt, 1)

\* comment.text.replace(bsMeaningfulCommentRegex, '$1'): the expression is
\* anchored at the start of the text, so only the first line changes
FieldDescription(comment) ==
  IF comment.present /\ comment.text # <<>>
  THEN <<bsMeaningfulCommentRegex(comment.text[1])>> \o Tail(comment.text)
  ELSE <<<<>>>>

\* ` * @property { ${type} } ${name} ${description} ` for description d,
\* which may span lines
PropertyLines(field, d) ==
  [i \in 1..Len(d) |->
     (IF i = 1
      THEN <<" ", "*", " ", "@property", " ", "{", " ", getTypeName(field.type), " ",
             "}", " ", field.name, " ">>
      ELSE <<>>)
     \o d[i] \o (IF i = Len(d) THEN <<" ">> ELSE <<>>)]

\* the @property tag of a field, or the empty string for a private field
processClassField(comment, field) ==
  IF field.accessModifier = "Private" THEN <<<<>>>>
  ELSE PropertyLines(field, FieldDescription(comment))

\* the loop that looks for an @extends line in the class comment
RECURSIVE ExtendsLoop(_, _)
ExtendsLoop(lines, i) ==
  IF i > Len(lines) THEN lines
  ELSE IF extendsRegex(lines[i]).matched /\ extendsRegex(lines[i]).g1 # <<>>
       THEN Splice(lines, i)
  ELSE ExtendsLoop(lines, i + 1)

\* the text of every method of a class: processFunction is called with the
\* comment and the method only
MethodTexts(comments, methods) ==
  [i \in 1..Len(methods) |->
     processFunction(getCommentForStatement(comments, methods[i]), methods[i], <<>>, <<>>)]

\* the property tags of the fields
FieldTexts(comments, fields) ==
  [i \in 1..Len(fields) |->
     processClassField(getCommentForStatement(comments, fields[i]), fields[i])]

\* ` * @extends ${parent} `, if the class has a parent
ExtendsLine(klass) ==
  IF klass.parentClassName # <<>>
  THEN <<<<" ", "*", " ", "@extends", " ">> \o klass.parentClassName \o <<" ">>>>
  ELSE <<>>

\* `class ${klassName} extends ${parentClassName} {\n`
ClassDeclaration(klass) ==
  IF klass.parentClassName # <<>>
  THEN <<<<"class", " ", klass.name, " ", "extends", " ">> \o klass.parentClassName
         \o <<" ", "{">>, <<>>>>
  ELSE <<<<"class", " ", klass.name, " ", "{">>, <<>>>>

\* processClass with klassCode.comments given
ClassText(comment, klass, moduleName, namespaceName, comments) ==
  ExtendsLoop(convertCommentTextToJsDocLines(comment), 1)
  \o ExtendsLine(klass)
  \o <<getMemberOf(moduleName, namespaceName)>>
  \o Flatten(FieldTexts(comments, SelectSeq(klass.body, IsField)))
  \o <<CloseLine>>
  \o ClassDeclaration(klass)
  \o Flatten(MethodTexts(comments, SelectSeq(klass.body, IsMethod)))
  \o <<<<"}">>, <<>>>>
  \o (IF namespaceName # <<>>
      THEN <<namespaceName \o <<".", klass.name, " ", "=", " ", klass.name, ";", " ">>>>
      ELSE <<>>)

processClass(comment, klass, moduleName, namespaceName) ==
  ClassText(comment, klass, moduleName, namespaceName,
            groupStatements(klass.body).comments)

\* namespacesCreated.includes(name)
Includes(created, name) == \E i \in 1..Len(created) : created[i] = name

RECURSIVE processStatements(_, _, _, _)
RECURSIVE processNamespace(_, _, _, _, _)
RECURSIVE NamespaceLoop(_, _, _, _, _, _)

\* one pass of the forEach over the namespaces, r being what the call of
\* processNamespace returned and left in namespacesCreated
NamespaceStep(code, i, moduleName, namespaceName, texts, r) ==
  NamespaceLoop(code, i + 1, moduleName, namespaceName, r.created, Append(texts, r.text))

\* the forEach over the namespaces of a statement list; every call may
\* append to namespacesCreated
NamespaceLoop(code, i, moduleName, namespaceName, created, texts) ==
  IF i > Len(code.namespaces) THEN [texts |-> texts, created |-> created]
  ELSE NamespaceStep(code, i, moduleName, namespaceName, texts,
         processNamespace(getCommentForStatement(code.comments, code.namespaces[i]),
                          code.namespaces[i], moduleName, namespaceName, created))

\* the order in which processStatements pushes the texts of its groups
StatementOrder(functionTexts, classTexts, namespaceTexts) ==
  functionTexts \o classTexts \o namespaceTexts

FunctionTexts(code, moduleName, namespaceName) ==
  [i \in 1..Len(code.functions) |->
     processFunction(getCommentForStatement(code.comments, code.functions[i]),
                     code.functions[i], moduleName, namespaceName)]

ClassTexts(code, moduleName, namespaceName) ==
  [i \in 1..Len(code.classes) |->
     processClass(getCommentForStatement(code.comments, code.classes[i]),
                  code.classes[i], moduleName, namespaceName)]

\* output.join('\n'): the empty string when nothing was pushed
JoinTexts(texts) == IF texts = <<>> THEN <<<<>>>> ELSE Flatten(texts)

\* processStatements once the namespaces are done (n)
StatementsText(code, moduleName, namespaceName, n) ==
  [text |-> JoinTexts(StatementOrder(FunctionTexts(code, moduleName, namespaceName),
                                     ClassTexts(code, moduleName, namespaceName),
                                     n.texts)),
   created |-> n.created]

\* processStatements on the grouped statements
GroupedStatements(code, moduleName, namespaceName, created) ==
  IF /\ Len(code.comments) = 0 /\ Len(code.functions) = 0
     /\ Len(code.classes) = 0 /\ Len(code.namespaces) = 0
  THEN [text |-> <<<<>>>>, created |-> created]
  ELSE StatementsText(code, moduleName, namespaceName,
         NamespaceLoop(code, 1, moduleName, namespaceName, created, <<>>))

\* processStatements(statements, moduleName, namespaceName) with the value of
\* namespacesCreated before the call: the returned text and the value after
processStatements(statements, moduleName, namespaceName, created) ==
  GroupedStatements(groupStatements(statements), moduleName, namespaceName, created)

\* the full path of a namespace declared inside parentNamespaceName
NamespacePath(namespace, parentNamespaceName) ==
  IF parentNamespaceName # <<>>
  THEN parentNamespaceName \o <<".">> \o namespace.name
  ELSE namespace.name

\* the documentation block and the declaration of a namespace not created yet
NamespaceDeclaration(comment, moduleName, parentNamespaceName, namespaceName) ==
  convertCommentTextToJsDocLines(comment)
  \o <<getMemberOf(moduleName, parentNamespaceName),
       <<" ", "*", " ", "@namespace", " ">> \o namespaceName \o <<" ">>,
       CloseLine>>
  \o (IF parentNamespaceName # <<>>
      THEN <<parentNamespaceName \o <<".", "namespaceName", " ", "=", " ", "{", "}">>>>
      ELSE <<<<"var", " ">> \o namespaceName \o <<" ", "=", " ", "{", "}", ";", " ">>>>)

\* processNamespace once the body is done
NamespaceText(declared, body) ==
  [text |-> declared \o body.text, created |-> body.created]

\* processNamespace with the full path given
NamespaceAt(comment, namespace, moduleName, parentNamespaceName, created, namespaceName) ==
  IF ~Includes(created, namespaceName)
  THEN NamespaceText(
         NamespaceDeclaration(comment, moduleName, parentNamespaceName, namespaceName),
         processStatements(namespace.body, moduleName, namespaceName,
                           Append(created, namespaceName)))
  ELSE NamespaceText(<<>>,
         processStatements(namespace.body, moduleName, namespaceName, created))

\* processNamespace(comment, namespace, moduleName, parentNamespaceName)
processNamespace(comment, namespace, moduleName, parentNamespaceName, created) ==
  NamespaceAt(comment, namespace, moduleName, parentNamespaceName, created,
              NamespacePath(namespace, parentNamespaceName))

----------------------------------------------------------------------------
(* beforeParse *)

\* the comment lines of the source text, in source order; the module tag is
\* looked for in the text of the whole file
RECURSIVE SourceCommentLines(_)
SourceCommentLines(statements) ==
  IF statements = <<>> THEN <<>>
  ELSE LET st == Head(statements)
       IN (IF st.kind = "comment" THEN st.text
           ELSE IF st.kind = "class" \/ st.kind = "namespace"
                THEN SourceCommentLines(st.body)
           ELSE <<>>)
          \o SourceCommentLines(Tail(statements))

\* ([^\*\s]+): the run of characters that are neither '*' nor whitespace
RECURSIVE ModuleRun(_, _)
ModuleRun(s, i) ==
  IF i <= Len(s) /\ ~IsWs(s[i]) /\ s[i] # "*" THEN <<s[i]>> \o ModuleRun(s, i + 1)
  ELSE <<>>

\* /@module ([^\*\s]+)/ on one line from index i: the leftmost match
RECURSIVE ModuleMatchIn(_, _)
ModuleMatchIn(s, i) ==
  IF i + 2 > Len(s) THEN NoMatch
  ELSE IF s[i] = "@module" /\ s[i + 1] = " " /\ ModuleRun(s, i + 2) # <<>>
       THEN Matched(ModuleRun(s, i + 2), <<>>, <<>>)
  ELSE ModuleMatchIn(s, i + 1)

\* e.source.match(/@module ([^\*\s]+)/): the first line, from line k on,
\* with a match
RECURSIVE ModuleMatch(_, _)
ModuleMatch(lines, k) ==
  IF k > Len(lines) THEN NoMatch
  ELSE IF ModuleMatchIn(lines[k], 1).matched THEN ModuleMatchIn(lines[k], 1)
  ELSE ModuleMatch(lines, k + 1)

\* the index of the last '.' of filename after its first character, or 0
LastDot(filename) == LastIndex(filename, ".", 2, 0)

\* path.parse(filename).name: the base name without its last extension
StripExtension(filename) ==
  IF LastDot(filename) = 0 THEN filename
  ELSE SubSeq(filename, 1, LastDot(filename) - 1)

\* .replace(/\./g, '_')
ReplaceDots(n) == [i \in 1..Len(n) |-> IF n[i] = "." THEN "_" ELSE n[i]]

BaseName(filename) == ReplaceDots(StripExtension(filename))

\* moduleName, moduleMatch being the outcome of the match on the source
ModuleNameOf(file, moduleMatch) ==
  IF moduleMatch.matched THEN moduleMatch.g1 ELSE BaseName(file.filename)

ModuleName(file) ==
  ModuleNameOf(file, ModuleMatch(SourceCommentLines(file.statements), 1))

\* the line `/** @module ${moduleName} */`
ModuleComment(moduleName) ==
  <<"/", "*", "*", " ", "@module", " ">> \o moduleName \o <<" ", "*", "/">>

\* the new e.source: the module comment, then the statements' text (r)
FileText(moduleName, r) ==
  [text |-> <<ModuleComment(moduleName)>> \o r.text, created |-> r.created]

\* beforeParse with the module name given
FileWithModule(file, created, moduleName) ==
  FileText(moduleName, processStatements(file.statements, moduleName, <<>>, created))

\* handlers.beforeParse(e) with the value of namespacesCreated before the
\* call: the new e.source and the value after
beforeParse(file, created) == FileWithModule(file, created, ModuleName(file))

----------------------------------------------------------------------------
(* Inputs: comments and callables *)

\* sequences over S of length at most n
SeqsUpTo(S, n) == UNION {[1..k -> S] : k \in 0..n}

\* sequences over S without repetition, of length at most n
InjSeqsUpTo(S, n) == {q \in SeqsUpTo(S, n) : \A i, j \in 1..Len(q) : q[i] = q[j] => i = j}

\* source lines of documenting comments, as the parser hands them over
FunctionCommentLines ==
  { <<"'", " ", "text">>,
    <<"'", " ", "@param", " ", "{", "integer", "}", " ", "x", " ", "-", " ", "first">>,
    <<"'", " ", "@param", " ", "{", "Integer", "}", " ", "X", " ", "max">>,
    <<"'", " ", "@param", " ", "{", "string", "}", " ", "[", "y", "=", "1", "]">>,
    <<"'", " ", "@param", " ", "{", "string", "}", " ", "z", " ", "-", " ", "text">>,
    <<"'", "@param", " ", "x", " ", "text">>,
    <<"'", " ", "@return", " ", "{", "Integer", "}", " ", "max">>,
    <<"'", " ", "*", " ", "@returns", " ", "text">> }

Comment(lines, endLine) ==
  [kind |-> "comment", present |-> TRUE, text |-> lines, endLine |-> endLine]

FunctionComments ==
  {NoComment} \cup {Comment(t, 0) : t \in SeqsUpTo(FunctionCommentLines, MaxLines) \ {<<>>}}

Param(name, type, defaultValue) ==
  [name |-> name, type |-> type, defaultValue |-> defaultValue]

\* defaultValue is the slice of the source line that holds the default
\* expression (parserLines[start.line].slice(start.character, end.character))
Params ==
  { Param("x", Builtin("integer"), <<>>),
    Param("y", NoType, <<"1">>),
    Param("w", Custom("Foo"), <<>>) }

Func(name, parameters, returnType, accessModifier, overrides, isMethod, startLine) ==
  [kind |-> "function", name |-> name, parameters |-> parameters,
   returnType |-> returnType, accessModifier |-> accessModifier,
   overrides |-> overrides, isMethod |-> isMethod,
   startLine |-> startLine, annotations |-> <<>>]

ParamLists == InjSeqsUpTo(Params, MaxParams)

\* functions with every documenting comment of the catalogue
DocumentedFunctions ==
  {[comment |-> c, func |-> Func("f", ps, rt, "", FALSE, FALSE, 1),
    moduleName |-> <<"Mod">>, namespaceName |-> <<>>] :
     c \in FunctionComments, ps \in ParamLists,
     rt \in {NoType, Builtin("integer")}}

\* functions and methods of every shape, with a few comments
ShapedFunctions ==
  {[comment |-> c, func |-> Func(nm[1], <<>>, NoType, am, ov, nm[2], 1),
    moduleName |-> mn, namespaceName |-> ns] :
     c \in {NoComment, Comment(<<<<"'", " ", "text">>>>, 0)},
     nm \in {<<"f", FALSE>>, <<"_g", FALSE>>, <<"m", TRUE>>, <<"_p", TRUE>>,
             <<"New", TRUE>>},
     am \in {"", "Private", "Public"}, ov \in BOOLEAN,
     mn \in {<<>>, <<"Mod">>}, ns \in {<<>>, <<"NS">>}}

\* comment lines that name x without a type: two whitespace characters
\* stand between the tag and the name
UntypedCommentLines ==
  { <<"'", " ", "@param", " ", " ", "x", " ", "text">>,
    <<"'", " ", "text">> }

\* functions documented with untyped parameter lines
UntypedFunctions ==
  {[comment |-> Comment(t, 0), func |-> Func("f", ps, NoType, "", FALSE, FALSE, 1),
    moduleName |-> <<"Mod">>, namespaceName |-> <<>>] :
     t \in SeqsUpTo(UntypedCommentLines, MaxLines) \ {<<>>}, ps \in ParamLists}

FunctionInputs ==
  {i \in DocumentedFunctions \cup ShapedFunctions \cup UntypedFunctions :
     ~i.func.isMethod => (i.func.accessModifier = "" /\ ~i.func.overrides)}

----------------------------------------------------------------------------
(* Inputs: classes *)

Field(name, type, accessModifier, startLine) ==
  [kind |-> "field", name |-> name, type |-> type, accessModifier |-> accessModifier,
   startLine |-> startLine, annotations |-> <<>>]

TextLine == <<"'", " ", "text">>

\* the members a class body is built from; "doc" ones have a comment on the
\* line above
MemberKinds == {"a", "a-doc", "b", "_c", "m", "m-doc", "_p", "q", "New"}

\* the statements of one member, laid out from line b
Member(k, b) ==
  CASE k = "a" -> <<Field("a", Builtin("float"), "Public", b + 1)>>
    [] k = "a-doc" -> <<Comment(<<TextLine>>, b), Field("a", Builtin("float"), "", b + 1)>>
    [] k = "b" -> <<Field("b", Builtin("string"), "Private", b + 1)>>
    [] k = "_c" -> <<Field("_c", NoType, "", b + 1)>>
    [] k = "m" -> <<Func("m", <<Param("x", Builtin("integer"), <<>>)>>, NoType, "Public",
                         FALSE, TRUE, b + 1)>>
    [] k = "m-doc" -> <<Comment(<<TextLine>>, b),
                        Func("m", <<>>, Builtin("integer"), "", TRUE, TRUE, b + 1)>>
    [] k = "_p" -> <<Func("_p", <<>>, NoType, "", FALSE, TRUE, b + 1)>>
    [] k = "q" -> <<Func("q", <<>>, NoType, "Private", FALSE, TRUE, b + 1)>>
    [] k = "New" -> <<Func("New", <<>>, NoType, "", FALSE, TRUE, b + 1)>>

\* member i of a body starts two lines after member i - 1
Body(kinds, b) == Flatten([i \in 1..Len(kinds) |-> Member(kinds[i], b + 2 * i)])

Class(name, parentClassName, body, startLine) ==
  [kind |-> "class", name |-> name, parentClassName |-> parentClassName,
   body |-> body, startLine |-> startLine, annotations |-> <<>>]

ClassComments ==
  { NoComment,
    Comment(<<TextLine>>, 0),
    Comment(<<TextLine, <<"'", " ", "@extends", " ", "Foo">>>>, 0) }

ClassInputs ==
  {[comment |-> c, klass |-> Class("K", parent, Body(kinds, 1), 1),
    moduleName |-> scope[1], namespaceName |-> scope[2]] :
     c \in ClassComments, parent \in {<<>>, <<"Foo">>},
     kinds \in SeqsUpTo(MemberKinds, MaxStmts),
     scope \in {<<<<>>, <<>>>>, <<<<"Mod">>, <<>>>>, <<<<"Mod">>, <<"NS">>>>}}

----------------------------------------------------------------------------
(* Inputs: statement lists and files *)

Namespace(name, body, startLine) ==
  [kind |-> "namespace", name |-> name, body |-> body, startLine |-> startLine,
   annotations |-> <<>>]

\* what a statement list is built from: a declaration, with the comment on
\* the line above it for the "doc" ones, or a comment standing alone
TopKinds == {"f", "h-doc", "K", "Bar", "NS-g", "NS-Sub", "NS.Sub", "NS-doc", "module"}

\* the statements of one entry, laid out from line b
Top(k, b) ==
  CASE k = "f" -> <<Func("f", <<Param("x", Builtin("integer"), <<>>)>>, NoType, "",
                         FALSE, FALSE, b + 1)>>
    [] k = "h-doc" -> <<Comment(<<TextLine>>, b),
                        Func("h", <<>>, Builtin("integer"), "", FALSE, FALSE, b + 1)>>
    [] k = "K" -> <<Class("K", <<>>, Body(<<"m">>, b + 1), b + 1)>>
    [] k = "Bar" -> <<Class("Bar", <<>>, <<>>, b + 1)>>
    [] k = "NS-g" ->
         <<Namespace(<<"NS">>, <<Func("g", <<>>, NoType, "", FALSE, FALSE, b + 2)>>, b + 1)>>
    [] k = "NS-Sub" ->
         <<Namespace(<<"NS">>,
              <<Namespace(<<"Sub">>, <<Func("k", <<>>, NoType, "", FALSE, FALSE, b + 3)>>,
                          b + 2)>>, b + 1)>>
    [] k = "NS.Sub" -> <<Namespace(<<"NS", ".", "Sub">>, <<>>, b + 1)>>
    [] k = "NS-doc" -> <<Comment(<<TextLine>>, b), Namespace(<<"NS">>, <<>>, b + 1)>>
    [] k = "module" -> <<Comment(<<<<"'", " ", "@module", " ", "Mod">>>>, b)>>

\* entry i of a list starts ten lines after entry i - 1
Statements(kinds) == Flatten([i \in 1..Len(kinds) |-> Top(kinds[i], 10 * i)])

StatementLists == {Statements(kinds) : kinds \in SeqsUpTo(TopKinds, MaxStmts)}

StatementsInputs ==
  {[statements |-> sts, moduleName |-> mn, namespaceName |-> ns] :
     sts \in StatementLists, mn \in {<<>>, <<"Mod">>}, ns \in {<<>>, <<"Outer">>}}

\* the lexer and parser run in BrighterScript mode for a .bs file only: a
\* .brs file holds no class and no namespace
FileNames == {<<"f", ".", "bs">>, <<"math", ".", "utils", ".", "bs">>, <<"g", ".", "brs">>}

BrightScriptKinds == {"f", "h-doc", "module"}

StatementListsOf(filename) ==
  IF filename[Len(filename)] = "bs" THEN StatementLists \ {<<>>}
  ELSE {Statements(kinds) : kinds \in SeqsUpTo(BrightScriptKinds, MaxStmts)} \ {<<>>}

Files ==
  UNION { {[filename |-> fn, statements |-> sts] : sts \in StatementListsOf(fn)} :
          fn \in FileNames }

NoInput == [statements |-> <<>>, moduleName |-> <<>>, namespaceName |-> <<>>]

----------------------------------------------------------------------------
(* processFunction as an operation on its own *)

NoEvent == [filename |-> <<>>, statements |-> <<>>]

InitFunction ==
  /\ namespacesCreated = <<>>
  /\ e = NoEvent
  /\ input \in FunctionInputs
  /\ output = <<>>
  /\ pc = "processFunction"
  /\ handled = 0

CallProcessFunction ==
  /\ pc = "processFunction"
  /\ output' = processFunction(input.comment, input.func, input.moduleName,
                               input.namespaceName)
  /\ pc' = "done"
  /\ UNCHANGED <<namespacesCreated, e, input, handled>>

NextFunction == CallProcessFunction

SpecFunction == InitFunction /\ [][NextFunction]_vars

----------------------------------------------------------------------------
(* Reading a rendered block *)

\* the lines of a rendered text up to its first closing line
Block(text) ==
  LET ends == {i \in 1..Len(text) : text[i] = CloseLine}
  IN IF ends = {} THEN text
     ELSE SubSeq(text, 1, CHOOSE i \in ends : \A j \in ends : i <= j)

IsParamTag(line) == Contains(line, "@param")

IsReturnTag(line) == Contains(line, "@return") \/ Contains(line, "@returns")

IsAccessPrivate(line) == line = <<" ", "*", " ", "@access", " ", "private">>

\* the parameter name a synthesized " * @param {type} name" line carries
TagName(line) ==
  LET closers == {c \in 1..Len(line) : line[c] = "}"}
  IN IF closers = {} THEN ""
     ELSE LET c == CHOOSE k \in closers : \A d \in closers : k <= d
          IN IF c + 2 > Len(line) THEN ""
             ELSE IF line[c + 2] = "[" /\ c + 3 <= Len(line) THEN line[c + 3]
             ELSE line[c + 2]

ParamTags(text) == SelectSeq(Block(text), IsParamTag)

ReturnTags(text) == SelectSeq(Block(text), IsReturnTag)

DeclaredNames(func) == {ToLower(func.parameters[i].name) : i \in 1..Len(func.parameters)}

\* a comment line that paramRegex resolves to one of func's parameters
NamesDeclared(line, func) ==
  paramRegex(line).matched /\ LowerSeq(paramRegex(line).name) \in {<<n>> : n \in DeclaredNames(func)}

----------------------------------------------------------------------------
(* Claims about processFunction, under SpecFunction *)

\* C1 as stated: the rendered block holds exactly N @param tag lines, one per
\* declared parameter, in declared order, whatever the comment holds.
C1_ExactlyNParamTags ==
  pc = "done" =>
    LET tags == ParamTags(output)
        ps == input.func.parameters
    IN /\ Len(tags) = Len(ps)
       /\ \A i \in 1..Len(ps) : TagName(tags[i]) = ps[i].name

\* C1 amended: the block ends its @param tag lines with exactly N synthesized
\* ones, one per declared parameter in declared order; every @param line
\* before them is a comment line passed through, and none of those is a line
\* that paramRegex resolves to a declared parameter.
C1_SynthesizedParamTags ==
  pc = "done" =>
    LET tags == ParamTags(output)
        ps == input.func.parameters
        extra == Len(tags) - Len(ps)
    IN /\ extra >= 0
       /\ \A i \in 1..Len(ps) :
            /\ TagName(tags[extra + i]) = ps[i].name
            /\ SubSeq(tags[extra + i], 1, 6) = <<" ", "*", " ", "@param", " ", "{">>
       /\ \A i \in 1..extra :
            /\ ~NamesDeclared(tags[i], input.func)
            /\ \E k \in 1..Len(convertCommentTextToJsDocLines(input.comment)) :
                 convertCommentTextToJsDocLines(input.comment)[k] = tags[i]

\* C1 witness: two parameters documented in reverse order, one of them twice,
\* next to a tag for a parameter the function does not have.
C1_Witness ==
  /\ pc = "done"
  /\ Len(input.func.parameters) = 2
  /\ input.func.parameters[1].name = "x"
  /\ input.func.parameters[2].name = "y"
  /\ input.comment.present
  /\ Len(input.comment.text) = 3
  /\ paramRegex(input.comment.text[1]).name = <<"y">>
  /\ paramRegex(input.comment.text[2]).name = <<"X">>
  /\ paramRegex(input.comment.text[3]).name = <<"z">>
  /\ Len(ParamTags(output)) = 3

\* C2 as stated: the rendered block holds exactly one return tag line, and
\* with no return line in the comment and no declared return type it is
\* " * @return {dynamic}".
C2_ExactlyOneReturnTag ==
  pc = "done" =>
    /\ Len(ReturnTags(output)) = 1
    /\ (/\ input.func.returnType = NoType
        /\ \A k \in 1..Len(input.comment.text) : ~IsReturnTag(input.comment.text[k]))
       => ReturnTags(output)[1] = <<" ", "*", " ", "@return", " ", "{", "dynamic", "}">>

\* the normalized comment lines that are return-tag lines
CommentReturnLines(comment) ==
  SelectSeq(convertCommentTextToJsDocLines(comment), IsReturnTag)

\* C3 as stated: when the comment's return line gives a type, the rendered
\* return tag carries that spelling, once braced; the structural type is
\* rendered only when the comment's return line gives none.
C3_CommentReturnTypeKept ==
  (pc = "done" /\ Len(CommentReturnLines(input.comment)) = 1) =>
    LET m == returnRegex(CommentReturnLines(input.comment)[1])
        inner == Trim(SubSeq(m.g1, 2, Len(m.g1) - 1))
    IN m.g1 # <<>> =>
         \E k \in 1..Len(ReturnTags(output)) :
            SubSeq(ReturnTags(output)[k], 1, 6 + Len(inner) + 1)
              = <<" ", "*", " ", "@return", " ", "{">> \o inner \o <<"}">>

\* the normalized lines of the comment that paramRegex resolves to param
LinesNaming(comment, param) ==
  SelectSeq(convertCommentTextToJsDocLines(comment),
            LAMBDA line : /\ paramRegex(line).matched
                          /\ LowerSeq(paramRegex(line).name) = <<ToLower(param.name)>>)

\* the tag the claim expects for param from the one comment line naming it:
\* the line's type when it gives one, the line's description in any case
AdoptedTag(param, commentMatch) ==
  ParamLine(param,
            IF commentMatch.g1 # <<>> THEN Trim(commentMatch.g1)
            ELSE <<getTypeName(param.type)>>,
            commentMatch.rest)

\* the synthesized tag of parameter i: the tags of the declared parameters
\* are the last ones of the block
SynthesizedTag(i) ==
  ParamTags(output)[Len(ParamTags(output)) - Len(input.func.parameters) + i]

\* C11: a declared parameter named by one parameter-tag line of the comment
\* is rendered with that line's description, whether or not the line gives a
\* type, and with the line's type when it gives one; the line itself is
\* removed, so the block holds one line naming the parameter, the
\* synthesized one.
C11_TagLineAdopted ==
  pc = "done" =>
    \A i \in 1..Len(input.func.parameters) :
      Len(LinesNaming(input.comment, input.func.parameters[i])) = 1 =>
        /\ SynthesizedTag(i) =
             AdoptedTag(input.func.parameters[i],
                        paramRegex(LinesNaming(input.comment, input.func.parameters[i])[1]))
        /\ Len(SelectSeq(Block(output),
                 LAMBDA line : /\ paramRegex(line).matched
                               /\ LowerSeq(paramRegex(line).name)
                                    = <<ToLower(input.func.parameters[i].name)>>)) = 1

\* how many lines processFunction synthesizes between the passthrough lines
\* and the closing line: the parameter tags, the access tag, the return tag,
\* the membership line, the override and constructor markers
SynthesizedCount(func) ==
  Len(func.parameters)
  + (IF StartsWithUnderscore(func.name) \/ func.accessModifier = "Private" THEN 1 ELSE 0)
  + 2
  + (IF func.overrides THEN 1 ELSE 0)
  + (IF func.isMethod /\ ToLower(func.name) = "new" THEN 1 ELSE 0)

\* the lines of the block that stand before the synthesized ones
Passthrough(text, func) ==
  SubSeq(Block(text), 1, Len(Block(text)) - 1 - SynthesizedCount(func))

\* a normalized line that is a return tag
IsReturnLine(line) == returnRegex(line).matched

\* a normalized line that is neither a tag of a declared parameter nor a
\* return tag
IsUnconsumed(line, func) == ~NamesDeclared(line, func) /\ ~IsReturnLine(line)

\* C12: the normalized comment lines that are neither the tag of a declared
\* parameter nor a return tag -- a parameter tag for a name the function
\* does not have included -- are rendered once each, unchanged, in their
\* order, before every synthesized line; none is dropped.
C12_PassthroughVerbatim ==
  pc = "done" =>
    SelectSeq(Passthrough(output, input.func), LAMBDA line : ~IsReturnLine(line))
      = SelectSeq(convertCommentTextToJsDocLines(input.comment),
                  LAMBDA line : IsUnconsumed(line, input.func))

\* a comment with a tag for a declared parameter, a tag for a parameter the
\* function does not have and a plain line; the last two are passed through
C12_Witness ==
  /\ pc = "done"
  /\ input.comment.present
  /\ Len(input.comment.text) = 3
  /\ NamesDeclared(convertCommentTextToJsDocLines(input.comment)[2], input.func)
  /\ paramRegex(convertCommentTextToJsDocLines(input.comment)[3]).name = <<"z">>
  /\ convertCommentTextToJsDocLines(input.comment)[4] = <<" ", "*", " ", "text">>
  /\ Passthrough(output, input.func)
       = <<convertCommentTextToJsDocLines(input.comment)[1],
           convertCommentTextToJsDocLines(input.comment)[3],
           convertCommentTextToJsDocLines(input.comment)[4]>>

----------------------------------------------------------------------------
(* processClass as an operation on its own *)

InitClass ==
  /\ namespacesCreated = <<>>
  /\ e = NoEvent
  /\ input \in ClassInputs
  /\ output = <<>>
  /\ pc = "processClass"
  /\ handled = 0

CallProcessClass ==
  /\ pc = "processClass"
  /\ output' = processClass(input.comment, input.klass, input.moduleName,
                            input.namespaceName)
  /\ pc' = "done"
  /\ UNCHANGED <<namespacesCreated, e, input, handled>>

NextClass == CallProcessClass

SpecClass == InitClass /\ [][NextClass]_vars

----------------------------------------------------------------------------
(* Reading a rendered class *)

IsExtendsTag(line) == Contains(line, "@extends")

IsMemberOfTag(line) == Contains(line, "@memberof")

IsPropertyTag(line) == Contains(line, "@property")

\* the field a " * @property { type } name ..." line names
PropertyName(line) == IF Len(line) >= 12 THEN line[12] ELSE ""

IsOpenLine(line) == line = <<"/", "*", "*">>

\* the declaration line of a method inside a class body
IsMethodDeclaration(line) ==
  \/ Len(line) >= 3 /\ IsWord(line[1]) /\ line[2] = " " /\ line[3] = "("
  \/ Len(line) >= 2 /\ line[1] = "constructor" /\ line[2] = "("

\* a finite set of numbers as an increasing sequence
RECURSIVE Sorted(_)
Sorted(S) ==
  IF S = {} THEN <<>>
  ELSE LET m == CHOOSE x \in S : \A y \in S : x <= y
       IN <<m>> \o Sorted(S \ {m})

\* the indices of the method declaration lines of text, in increasing order
MethodDeclarations(text) == Sorted({i \in 1..Len(text) : IsMethodDeclaration(text[i])})

\* the comment block that ends right above line i
BlockAbove(text, i) ==
  LET opens == {k \in 1..(i - 1) : IsOpenLine(text[k])}
  IN IF opens = {} THEN <<>>
     ELSE SubSeq(text, CHOOSE k \in opens : \A j \in opens : j <= k, i - 1)

Methods(klass) == SelectSeq(klass.body, IsMethod)

Fields(klass) == SelectSeq(klass.body, IsField)

\* the comment block of the k-th method of the rendered class
MethodBlock(text, k) == BlockAbove(text, MethodDeclarations(text)[k])

\* what the membership tag of a declaration in this scope has to be
ExpectedMemberOf(moduleName, namespaceName) ==
  <<" ", "*", " ", "@memberof", " ", "module", ":">>
  \o (IF namespaceName # <<>> THEN namespaceName ELSE moduleName)

----------------------------------------------------------------------------
(* Claims about processClass, under SpecClass *)

\* C6 as stated: a class with a declared parent renders exactly one @extends
\* tag, naming the structural parent, even if the comment wrote one itself.
C6_ExactlyOneExtendsTag ==
  (pc = "done" /\ input.klass.parentClassName # <<>>) =>
    LET tags == SelectSeq(Block(output), IsExtendsTag)
    IN /\ Len(tags) = 1
       /\ tags[1] = <<" ", "*", " ", "@extends", " ">> \o input.klass.parentClassName
                    \o <<" ">>

\* a method is private by its name or by its modifier
MethodIsPrivate(m) == StartsWithUnderscore(m.name) \/ m.accessModifier = "Private"

MethodsCarryAccessPrivate ==
  /\ Len(MethodDeclarations(output)) = Len(Methods(input.klass))
  /\ \A k \in 1..Len(Methods(input.klass)) :
       MethodIsPrivate(Methods(input.klass)[k]) =>
         \E i \in 1..Len(MethodBlock(output, k)) : IsAccessPrivate(MethodBlock(output, k)[i])

PropertyNames == {PropertyName(Block(output)[i]) :
                    i \in {j \in 1..Len(Block(output)) : IsPropertyTag(Block(output)[j])}}

\* C7 as stated: a method that is private by name or by modifier carries
\* " * @access private", and a field that is private by name or by modifier
\* is no @property of its class.
C7_PrivateByEitherSignal ==
  pc = "done" =>
    /\ MethodsCarryAccessPrivate
    /\ \A k \in 1..Len(Fields(input.klass)) :
         LET f == Fields(input.klass)[k]
         IN (StartsWithUnderscore(f.name) \/ f.accessModifier = "Private")
              => f.name \notin PropertyNames

\* C7 amended: a method that is private by name or by modifier carries
\* " * @access private"; a field whose modifier is private is no @property
\* of its class, while every other field, underscore-named ones included, is.
C7_PrivateMethodsAndFields ==
  pc = "done" =>
    /\ MethodsCarryAccessPrivate
    /\ \A k \in 1..Len(Fields(input.klass)) :
         LET f == Fields(input.klass)[k]
         IN f.accessModifier = "Private" => f.name \notin PropertyNames
    /\ \A k \in 1..Len(Fields(input.klass)) :
         LET f == Fields(input.klass)[k]
         IN (f.accessModifier # "Private"
             /\ \A j \in 1..Len(Fields(input.klass)) : Fields(input.klass)[j].name = f.name
                   => Fields(input.klass)[j].accessModifier # "Private")
            => f.name \in PropertyNames

\* C7 witness: a class with a method private by its name alone and a field
\* private by its modifier has been rendered.
C7_Witness ==
  /\ pc = "done"
  /\ Len(Methods(input.klass)) = 1
  /\ Methods(input.klass)[1].name = "_p"
  /\ Methods(input.klass)[1].accessModifier = ""
  /\ Len(Fields(input.klass)) = 1
  /\ Fields(input.klass)[1].accessModifier = "Private"
  /\ \E i \in 1..Len(MethodBlock(output, 1)) : IsAccessPrivate(MethodBlock(output, 1)[i])
  /\ PropertyNames = {}

\* C9 as stated: with an enclosing namespace or a module name, the block of
\* the class and the block of each of its methods carry the membership tag,
\* naming the namespace if there is one, else the module.
C9_MembershipTagEverywhere ==
  (pc = "done" /\ (input.moduleName # <<>> \/ input.namespaceName # <<>>)) =>
    LET expected == ExpectedMemberOf(input.moduleName, input.namespaceName)
    IN /\ SelectSeq(Block(output), IsMemberOfTag) = <<expected>>
       /\ \A k \in 1..Len(Methods(input.klass)) :
            SelectSeq(MethodBlock(output, k), IsMemberOfTag) = <<expected>>

----------------------------------------------------------------------------
(* processStatements as an operation on its own *)

\* what a call leaves behind: the text it returns and namespacesCreated
Returned(r) == output' = r.text /\ namespacesCreated' = r.created

InitStatements ==
  /\ namespacesCreated = <<>>
  /\ e = NoEvent
  /\ input \in StatementsInputs
  /\ output = <<>>
  /\ pc = "processStatements"
  /\ handled = 0

CallProcessStatements ==
  /\ pc = "processStatements"
  /\ Returned(processStatements(input.statements, input.moduleName,
                                input.namespaceName, namespacesCreated))
  /\ pc' = "done"
  /\ UNCHANGED <<e, input, handled>>

NextStatements == CallProcessStatements

SpecStatements == InitStatements /\ [][NextStatements]_vars

----------------------------------------------------------------------------
(* Reading the rendered statements *)

StartsWith(line, prefix) ==
  Len(line) >= Len(prefix) /\ SubSeq(line, 1, Len(prefix)) = prefix

\* the line by which the rendering of a declaration is recognised: the
\* synthetic declaration of a function or a class, the @namespace tag of a
\* namespace
Marker(stmt, namespaceName) ==
  CASE IsFunction(stmt) -> <<"function", " ", stmt.name>>
    [] IsClass(stmt) -> <<"class", " ", stmt.name>>
    [] IsNamespace(stmt) ->
         <<" ", "*", " ", "@namespace", " ">> \o NamespacePath(stmt, namespaceName) \o <<" ">>

\* the first line of text, from line i on, that starts with prefix, or 0
RECURSIVE RenderedAt(_, _, _)
RenderedAt(text, prefix, i) ==
  IF i > Len(text) THEN 0
  ELSE IF StartsWith(text[i], prefix) THEN i
  ELSE RenderedAt(text, prefix, i + 1)

\* the declarations of a statement list, in source order
Declarations(statements) == SelectSeq(statements, LAMBDA st : ~IsComment(st))

\* where declaration i of the input is rendered in the output, or 0
Position(i) ==
  RenderedAt(output, Marker(Declarations(input.statements)[i], input.namespaceName), 1)

\* the marker lines the rendering of a declaration can hold: its own and,
\* for a namespace, those of the declarations in its body
RECURSIVE Markers(_, _)
Markers(stmt, namespaceName) ==
  IF IsNamespace(stmt)
  THEN {Marker(stmt, namespaceName)}
         \cup UNION {Markers(stmt.body[k], NamespacePath(stmt, namespaceName)) :
                       k \in {n \in DOMAIN stmt.body : ~IsComment(stmt.body[n])}}
  ELSE {Marker(stmt, namespaceName)}

\* declaration i of the input is the only one that can render its marker
Recognisable(i) ==
  \A k \in 1..Len(Declarations(input.statements)) :
    k # i => Marker(Declarations(input.statements)[i], input.namespaceName)
               \notin Markers(Declarations(input.statements)[k], input.namespaceName)

\* two declarations of the input that are both rendered, each recognisable
BothRendered(i, j) ==
  /\ Recognisable(i)
  /\ Recognisable(j)
  /\ Position(i) > 0
  /\ Position(j) > 0

\* the place of a declaration's kind in the output
KindRank(stmt) == IF IsFunction(stmt) THEN 1 ELSE IF IsClass(stmt) THEN 2 ELSE 3

----------------------------------------------------------------------------
(* Claims about processStatements, under SpecStatements *)

\* C10 (as stated): of two sibling declarations, whatever their kinds, the
\* one that comes first in the source is rendered first in the output.
C10_SourceOrder ==
  pc = "done" =>
    \A i, j \in 1..Len(Declarations(input.statements)) :
      (i < j /\ BothRendered(i, j)) => Position(i) < Position(j)

\* C10 (amended): the output is grouped by kind, functions first, then
\* classes, then namespaces; within one kind the declarations are rendered
\* in source order.
C10_GroupedThenSourceOrder ==
  pc = "done" =>
    \A i, j \in 1..Len(Declarations(input.statements)) :
      (/\ BothRendered(i, j)
       /\ \/ KindRank(Declarations(input.statements)[i])
               < KindRank(Declarations(input.statements)[j])
          \/ /\ KindRank(Declarations(input.statements)[i])
                  = KindRank(Declarations(input.statements)[j])
             /\ i < j)
      => Position(i) < Position(j)

\* a class that precedes a function in the source and follows it in the
\* output
C10_Witness ==
  /\ pc = "done"
  /\ \E i, j \in 1..Len(Declarations(input.statements)) :
       /\ i < j
       /\ IsClass(Declarations(input.statements)[i])
       /\ IsFunction(Declarations(input.statements)[j])
       /\ BothRendered(i, j)
       /\ Position(j) < Position(i)

----------------------------------------------------------------------------
(* getCommentForStatement as an operation on its own *)

\* the comments of a statement list, in source order: every comment ends
\* on a later line than the one before it
CommentLists ==
  {q \in SeqsUpTo({Comment(<<TextLine>>, l) : l \in 1..LastLine}, MaxComments) :
     \A i \in 1..Len(q) - 1 : q[i].endLine < q[i + 1].endLine}

\* a declaration that starts on startLine, with its annotations, if any, on
\* the lines given, all above it
Annotated(startLine, annotations) ==
  [Func("f", <<>>, NoType, "", FALSE, FALSE, startLine) EXCEPT !.annotations = annotations]

AnnotatedStatements ==
  {Annotated(l, an) :
     l \in 1..LastLine, an \in {<<>>} \cup {<<a>> : a \in 1..LastLine}}

CommentLookupInputs ==
  {[comments |-> cs, stmt |-> st] :
     cs \in CommentLists,
     st \in {t \in AnnotatedStatements :
               \A k \in 1..Len(t.annotations) : t.annotations[k] < t.startLine}}

InitComment ==
  /\ namespacesCreated = <<>>
  /\ e = NoEvent
  /\ input \in CommentLookupInputs
  /\ output = <<>>
  /\ pc = "getCommentForStatement"
  /\ handled = 0

CallGetCommentForStatement ==
  /\ pc = "getCommentForStatement"
  /\ output' = getCommentForStatement(input.comments, input.stmt)
  /\ pc' = "done"
  /\ UNCHANGED <<namespacesCreated, e, input, handled>>

NextComment == CallGetCommentForStatement

SpecComment == InitComment /\ [][NextComment]_vars

----------------------------------------------------------------------------
(* Claims about getCommentForStatement, under SpecComment *)

\* the line a declaration effectively starts on
EffectiveStartLine(stmt) ==
  IF stmt.annotations # <<>> THEN stmt.annotations[1] ELSE stmt.startLine

\* the association rule: the comment ends on the line above the effective
\* start, or on the declaration's own line
SatisfiesRule(comment, stmt) ==
  \/ comment.endLine = EffectiveStartLine(stmt) - 1
  \/ comment.endLine = stmt.startLine

\* the indexes of the comments of the input that satisfy the rule
Satisfying == {i \in 1..Len(input.comments) : SatisfiesRule(input.comments[i], input.stmt)}

\* C13: getCommentForStatement returns the first comment, in original
\* order, that satisfies the association rule, and an absent value when none
\* does; it never returns a comment that does not satisfy the rule.
C13_FirstSatisfyingComment ==
  pc = "done" =>
    IF Satisfying = {} THEN output = NoComment
    ELSE /\ output = input.comments[CHOOSE i \in Satisfying : \A j \in Satisfying : i <= j]
         /\ SatisfiesRule(output, input.stmt)

\* an annotated declaration with a comment above its annotation and a
\* comment on its own line: the first one is returned, and it is not the
\* first comment of the list
C13_Witness ==
  /\ pc = "done"
  /\ input.stmt.annotations # <<>>
  /\ Cardinality(Satisfying) = 2
  /\ 1 \notin Satisfying
  /\ output.present
  /\ output.endLine = input.stmt.annotations[1] - 1

----------------------------------------------------------------------------
(* The plugin: JSDoc hands every file it parses to beforeParse *)

Init ==
  /\ namespacesCreated = <<>>
  /\ e = NoEvent
  /\ input = NoInput
  /\ output = <<>>
  /\ pc = "idle"
  /\ handled = 0

BeforeParse(file) ==
  /\ handled < MaxFiles
  /\ Returned(beforeParse(file, namespacesCreated))
  /\ e' = file
  /\ pc' = "done"
  /\ handled' = handled + 1
  /\ UNCHANGED input

Next == \E file \in Files : BeforeParse(file)

Spec == Init /\ [][Next]_vars

----------------------------------------------------------------------------
(* Reading the output of a file *)

\* the full paths of the namespaces declared in a statement list, nested
\* ones included
RECURSIVE NamespacePaths(_, _)
NamespacePaths(statements, parentNamespaceName) ==
  UNION { {NamespacePath(statements[i], parentNamespaceName)}
            \cup NamespacePaths(statements[i].body,
                                NamespacePath(statements[i], parentNamespaceName)) :
          i \in {k \in DOMAIN statements : IsNamespace(statements[k])} }

\* how many lines of text are the @namespace tag of path
NamespaceTags(text, path) ==
  Cardinality({i \in DOMAIN text :
                 text[i] = <<" ", "*", " ", "@namespace", " ">> \o path \o <<" ">>})

\* how many entries of namespacesCreated are path
TimesCreated(path) ==
  Cardinality({i \in DOMAIN namespacesCreated : namespacesCreated[i] = path})

\* the lines of text that are a module-declaration comment
ModuleComments(text) ==
  SelectSeq(text, LAMBDA line : StartsWith(line, <<"/", "*", "*", " ", "@module", " ">>))

\* the source of the file has an explicit @module tag
HasModuleTag(file) == ModuleMatch(SourceCommentLines(file.statements), 1).matched

----------------------------------------------------------------------------
(* Claims about beforeParse, under Spec *)

\* C4: in the output of a file, every namespace path the file declares has
\* exactly one container declaration (one @namespace block), however many
\* namespace statements contribute to it, and namespacesCreated holds the
\* path exactly once.
C4_OneDeclarationPerPath ==
  pc = "done" =>
    \A path \in NamespacePaths(e.statements, <<>>) :
      /\ NamespaceTags(output, path) = 1
      /\ TimesCreated(path) = 1

\* C5: the output for a file depends only on that file: it is what
\* beforeParse yields from an empty created-set, whatever files came before.
C5_FreshPerFile ==
  pc = "done" => output = beforeParse(e, <<>>).text

\* C8: a file whose source has an explicit @module tag gets no
\* module-declaration comment; any other file gets one, at the top, naming
\* the base name of the file with every '.' replaced by '_'.
C8_ModuleCommentOnlyWithoutTag ==
  pc = "done" =>
    IF HasModuleTag(e) THEN ModuleComments(output) = <<>>
    ELSE /\ ModuleComments(output) = <<ModuleComment(BaseName(e.filename))>>
         /\ output[1] = ModuleComment(BaseName(e.filename))

====
